---- MODULE Spec2Model ----
(***************************************************************************)
(* A model of instar's install/remove logic (src/src/main.rs).             *)
(*                                                                         *)
(* A path is a sequence of components, as std::path::Path::components()    *)
(* yields them: an absolute path starts with the root component "/".       *)
(* The filesystem is the set of directories `dirs` and the function        *)
(* `files` from the paths of regular files to their content.  The content  *)
(* of a file written by the install of a package is the package's name;    *)
(* "old" is the content of a file that was there before any install.       *)
(*                                                                         *)
(* Every invocation of the program is a process p with a position pc[p].   *)
(* An archive is a forward-only stream: the entry read by an iteration of  *)
(* the install loop is drawn when the iteration runs, and seen[p] is the   *)
(* archive read so far.                                                    *)
(***************************************************************************)
EXTENDS Naturals, Integers, Sequences, FiniteSets, TLC

VARIABLES files, dirs, manifests, packagesDir, configDir, cfgFile, cwdDirs,
          pc, op, file_str, seen, lines, path, directory, err,
          before, roundTrip, deletedSome, retry, record

vars == <<files, dirs, manifests, packagesDir, configDir, cfgFile, cwdDirs,
          pc, op, file_str, seen, lines, path, directory, err,
          before, roundTrip, deletedSome, retry, record>>

(***************************************************************************)
(* Bounds                                                                  *)
(***************************************************************************)
\* the longest archive, in entries
MaxEntries == 2

Procs == {1, 2}
\* the invocations of a run in which one command runs at a time
SeqProcs == {1}

None == <<"none">>

(***************************************************************************)
(* Paths                                                                   *)
(***************************************************************************)
Categories == {"bin", "etc", "include", "lib", "share"}

RootDir == <<"/">>

IsAbsolute(p) == p # <<>> /\ p[1] = "/"

\* Path::parent: None for the root and for the empty path
Parent(p) == IF Len(p) = 0 \/ p = RootDir THEN None ELSE SubSeq(p, 1, Len(p) - 1)

\* Path::file_name: None when the path ends in the root or in ..
FileName(p) ==
    IF Len(p) = 0 \/ p[Len(p)] \in {"/", ".."} THEN "none" ELSE p[Len(p)]

\* Path::join: an absolute argument replaces the base
Join(base, p) == IF IsAbsolute(p) THEN p ELSE base \o p

\* Path::components drops every "." but a leading one
RECURSIVE DropCurDir(_)
DropCurDir(s) ==
    IF s = <<>> THEN <<>>
    ELSE IF Head(s) = "." THEN DropCurDir(Tail(s))
    ELSE <<Head(s)>> \o DropCurDir(Tail(s))

Components(raw) ==
    IF raw = <<>> THEN <<>> ELSE <<Head(raw)>> \o DropCurDir(Tail(raw))

\* StripPrefix with a slip: strips the leading component whatever it is
StripPrefix_Any(p, name) == IF Len(p) >= 2 THEN Tail(p) ELSE p

\* Path::strip_prefix(file_str): Err (the path is kept) unless the first
\* component is the package name
StripPrefix(p, name) ==
    IF Len(p) >= 1 /\ p[1] = name THEN Tail(p) ELSE p

\* the test of lines 156-160
StartsWithCategory(p) == Len(p) >= 1 /\ p[1] \in Categories

\* path_absolutize on an absolute path: "." is dropped and ".." removes the
\* component before it, lexically; the root has no parent to remove
RECURSIVE AbsolutizeFrom(_, _)
AbsolutizeFrom(acc, rest) ==
    IF rest = <<>> THEN acc
    ELSE IF Head(rest) = "." THEN AbsolutizeFrom(acc, Tail(rest))
    ELSE IF Head(rest) = ".."
         THEN AbsolutizeFrom(IF Len(acc) > 1 THEN SubSeq(acc, 1, Len(acc) - 1) ELSE acc,
                             Tail(rest))
    ELSE AbsolutizeFrom(Append(acc, Head(rest)), Tail(rest))

Absolutize(p) == AbsolutizeFrom(RootDir, Tail(p))

\* Path::to_str as written by writeln!: the text of the path, as the
\* sequence of its separators and names
RECURSIVE NamesToStr(_)
NamesToStr(s) ==
    IF s = <<>> THEN <<>>
    ELSE IF Len(s) = 1 THEN <<s[1]>>
    ELSE <<s[1], "/">> \o NamesToStr(Tail(s))

PathToStr(p) == IF IsAbsolute(p) THEN <<"/">> \o NamesToStr(Tail(p)) ELSE NamesToStr(p)

\* PathBuf::from(line): a leading separator is the root, the others separate
RECURSIVE StrNames(_)
StrNames(s) ==
    IF s = <<>> THEN <<>>
    ELSE IF Head(s) = "/" THEN StrNames(Tail(s))
    ELSE <<Head(s)>> \o StrNames(Tail(s))

StrToPath(s) ==
    IF s # <<>> /\ s[1] = "/" THEN RootDir \o StrNames(Tail(s)) ELSE StrNames(s)

(***************************************************************************)
(* The filesystem                                                          *)
(***************************************************************************)
Exists(fs, d, p) == p \in d \/ p \in DOMAIN fs

\* Path::is_dir
IsDir(d, p) == p \in d

Children(fs, d, p) ==
    {c \in d \cup DOMAIN fs : Len(c) = Len(p) + 1 /\ SubSeq(c, 1, Len(p)) = p}

\* is_dir_empty with a slip: every directory counts as empty
is_dir_empty_Always(fs, d, p) == TRUE

\* is_dir_empty, for a directory that exists
is_dir_empty(fs, d, p) == Children(fs, d, p) = {}

\* the proper ancestors of p, the root included
Ancestors(p) == {SubSeq(p, 1, n) : n \in 1..(Len(p) - 1)}

\* the function fs without the key p
Without(fs, p) == [x \in DOMAIN fs \ {p} |-> fs[x]]

\* the function fs with the key p set to c
With(fs, p, c) == [x \in DOMAIN fs \cup {p} |-> IF x = p THEN c ELSE fs[x]]

(***************************************************************************)
(* The tar crate's Entry::unpack and std::fs::create_dir_all, as the       *)
(* installer calls them.  Each yields the filesystem after the call and    *)
(* whether the call succeeded; a failed call leaves the filesystem alone.  *)
(***************************************************************************)
\* Unpack with a slip: a failed call takes back the files of the package
Unpack_Cleanup(fs, d, dst, kind, content) ==
    LET kept == {x \in DOMAIN fs : fs[x] # content}
        undone == [x \in kept |-> fs[x]]
    IN IF kind = "dir"
       THEN IF dst \in d THEN [ok |-> TRUE, files |-> fs, dirs |-> d]
            ELSE IF dst \in DOMAIN fs \/ Parent(dst) \notin d
                 THEN [ok |-> FALSE, files |-> undone, dirs |-> d]
                 ELSE [ok |-> TRUE, files |-> fs, dirs |-> d \cup {dst}]
       ELSE IF dst \in d \/ Parent(dst) \notin d
            THEN [ok |-> FALSE, files |-> undone, dirs |-> d]
            ELSE [ok |-> TRUE, files |-> With(fs, dst, content), dirs |-> d]

\* Entry::unpack(dst) does not create the parent of dst.  A directory entry
\* is created with create_dir, and a directory already there is accepted.
\* A regular file replaces a regular file already there.
Unpack(fs, d, dst, kind, content) ==
    IF kind = "dir"
    THEN IF dst \in d THEN [ok |-> TRUE, files |-> fs, dirs |-> d]
         ELSE IF dst \in DOMAIN fs \/ Parent(dst) \notin d
              THEN [ok |-> FALSE, files |-> fs, dirs |-> d]
              ELSE [ok |-> TRUE, files |-> fs, dirs |-> d \cup {dst}]
    ELSE IF dst \in d \/ Parent(dst) \notin d
         THEN [ok |-> FALSE, files |-> fs, dirs |-> d]
         ELSE [ok |-> TRUE, files |-> With(fs, dst, content), dirs |-> d]

\* create_dir_all(dst) creates dst and its missing ancestors, and fails when
\* one of them is a regular file
CreateDirAll(fs, d, dst) ==
    IF (Ancestors(dst) \cup {dst}) \cap DOMAIN fs # {}
    THEN [ok |-> FALSE, files |-> fs, dirs |-> d]
    ELSE [ok |-> TRUE, files |-> fs, dirs |-> d \cup Ancestors(dst) \cup {dst}]

(***************************************************************************)
(* Inputs                                                                  *)
(***************************************************************************)
\* Config.install_dir
InstallDir == <<"/", "opt">>

\* the text of the names the commands are given
Chars ==
    [s \in {"p.tar.gz", "q.tar.gz", "p.tgz", "p", "q"} |->
        CASE s = "p.tar.gz" -> <<"p", ".", "t", "a", "r", ".", "g", "z">>
          [] s = "q.tar.gz" -> <<"q", ".", "t", "a", "r", ".", "g", "z">>
          [] s = "p.tgz" -> <<"p", ".", "t", "g", "z">>
          [] s = "p" -> <<"p">>
          [] s = "q" -> <<"q">>]

Str(cs) == CHOOSE s \in DOMAIN Chars : Chars[s] = cs

TarGz == <<".", "t", "a", "r", ".", "g", "z">>

\* str::ends_with
EndsWith(cs, suffix) ==
    Len(cs) >= Len(suffix)
    /\ SubSeq(cs, Len(cs) - Len(suffix) + 1, Len(cs)) = suffix

\* String::truncate(len - 7)
Truncated(cs) == SubSeq(cs, 1, Len(cs) - Len(TarGz))

ArchiveFiles == {"p.tar.gz", "q.tar.gz", "p.tgz"}

PackageNames == {"p", "q"}

\* the archive entries: the path as the archive spells it, and the entry type
Entries ==
    { [path |-> <<"p", "README">>, kind |-> "file"],
      [path |-> <<"bin", "t">>, kind |-> "dir"],
      [path |-> <<"p", "bin", "t", "f">>, kind |-> "file"],
      [path |-> <<"bin", "lib">>, kind |-> "dir"],
      [path |-> <<"bin", "lib", "f">>, kind |-> "file"],
      [path |-> <<"bin", ".", "..", "f">>, kind |-> "file"] }

BaseDirs == {RootDir, InstallDir, InstallDir \o <<"bin">>}

NoFiles == [x \in {} |-> "old"]

\* the install trees a behaviour starts from
InitialTrees ==
    { [files |-> NoFiles, dirs |-> BaseDirs],
      [files |-> With(NoFiles, InstallDir \o <<"bin", "t", "f">>, "old"),
       dirs |-> BaseDirs \cup {InstallDir \o <<"bin", "t">>}] }

\* the directories of the working directory: none, or those of an archive
\* that was unpacked there
WorkingDirs ==
    { {}, {e.path : e \in {x \in Entries : x.kind = "dir"}} }

NoManifests == [x \in {} |-> <<>>]

NoSnapshot == [files |-> NoFiles, dirs |-> {}, manifests |-> NoManifests]

(***************************************************************************)
(* The state after construction                                            *)
(***************************************************************************)
Init ==
    /\ \E t \in InitialTrees : files = t.files /\ dirs = t.dirs
    /\ manifests = NoManifests
    /\ packagesDir = FALSE
    /\ configDir = FALSE
    /\ cfgFile = FALSE
    /\ cwdDirs \in WorkingDirs
    /\ pc = [p \in Procs |-> "idle"]
    /\ op = [p \in Procs |-> "none"]
    /\ file_str = [p \in Procs |-> "none"]
    /\ seen = [p \in Procs |-> <<>>]
    /\ lines = [p \in Procs |-> <<>>]
    /\ path = [p \in Procs |-> None]
    /\ directory = [p \in Procs |-> None]
    /\ err = [p \in Procs |-> "none"]
    /\ before = NoSnapshot
    /\ roundTrip = [p \in Procs |-> FALSE]
    /\ deletedSome = [p \in Procs |-> FALSE]
    /\ retry = [p \in Procs |-> FALSE]
    /\ record = [n \in PackageNames |-> "none"]

\* an invocation can start in a process that runs no command
Free(p) == pc[p] \in {"idle", "done", "failed"}

(***************************************************************************)
(* install and install_tar                                                 *)
(***************************************************************************)
\* install (lines 180-200) up to the call of install_tar, then the name of
\* the package (lines 124-129)
InstallStart(p, f) ==
    /\ Free(p)
    /\ op' = [op EXCEPT ![p] = "install"]
    /\ configDir' = TRUE
    /\ cfgFile' = TRUE
    /\ seen' = [seen EXCEPT ![p] = <<>>]
    /\ lines' = [lines EXCEPT ![p] = <<>>]
    /\ path' = [path EXCEPT ![p] = None]
    /\ directory' = [directory EXCEPT ![p] = None]
    /\ roundTrip' = [roundTrip EXCEPT ![p] = FALSE]
    /\ before' = [files |-> files, dirs |-> dirs, manifests |-> manifests]
    /\ deletedSome' = [deletedSome EXCEPT ![p] = FALSE]
    /\ retry' = [retry EXCEPT ![p] = FALSE]
    /\ IF EndsWith(Chars[f], TarGz)
       THEN /\ file_str' = [file_str EXCEPT ![p] = Str(Truncated(Chars[f]))]
            /\ pc' = [pc EXCEPT ![p] = "i_pkgdir"]
            /\ err' = [err EXCEPT ![p] = "none"]
       ELSE /\ file_str' = [file_str EXCEPT ![p] = "none"]
            /\ pc' = [pc EXCEPT ![p] = "failed"]
            /\ err' = [err EXCEPT ![p] = "InvalidArchiveName"]
    /\ UNCHANGED <<files, dirs, manifests, packagesDir, cwdDirs>>

\* lines 134-139
InstallPackagesDir(p) ==
    /\ pc[p] = "i_pkgdir"
    /\ IF packagesDir \/ configDir
       THEN /\ packagesDir' = TRUE
            /\ pc' = [pc EXCEPT ![p] = "i_check"]
            /\ err' = err
       ELSE /\ packagesDir' = packagesDir
            /\ pc' = [pc EXCEPT ![p] = "failed"]
            /\ err' = [err EXCEPT ![p] = "ManifestDirCreateError"]
    /\ UNCHANGED <<files, dirs, manifests, configDir, cfgFile, cwdDirs, op, file_str,
                   seen, lines, path, directory, before, roundTrip, deletedSome, retry>>

\* AlreadyInstalled with a slip: the manifest is never found
AlreadyInstalled_Never(ms, name) == FALSE

\* AlreadyInstalled with a slip: an install of the package that is under way
\* in another process counts as a manifest, as a lock would make it
AlreadyInstalled_Lock(ms, name) ==
    \/ name \in DOMAIN ms
    \/ \E q \in Procs : /\ pc[q] \in {"i_create", "i_loop"}
                        /\ op[q] = "install"
                        /\ file_str[q] = name

\* line 141: the manifest of the package exists
AlreadyInstalled(ms, name) == name \in DOMAIN ms

\* lines 140-143
InstallCheck(p) ==
    /\ pc[p] = "i_check"
    /\ IF AlreadyInstalled(manifests, file_str[p])
       THEN /\ pc' = [pc EXCEPT ![p] = "failed"]
            /\ err' = [err EXCEPT ![p] = "AlreadyInstalled"]
       ELSE /\ pc' = [pc EXCEPT ![p] = "i_create"]
            /\ err' = err
    /\ UNCHANGED <<files, dirs, manifests, packagesDir, configDir, cfgFile, cwdDirs, op,
                   file_str, seen, lines, path, directory, before,
                   roundTrip, deletedSome, retry>>

\* InstallCreate with a slip: the loop is entered before the manifest is made
InstallCreate_Late(p) ==
    /\ pc[p] = "i_create"
    /\ manifests' = manifests
    /\ pc' = [pc EXCEPT ![p] = "i_loop"]
    /\ err' = err
    /\ UNCHANGED <<files, dirs, packagesDir, configDir, cfgFile, cwdDirs, op, file_str,
                   seen, lines, path, directory, before, roundTrip, deletedSome, retry>>

\* lines 144-145: File::create makes the manifest, empty
InstallCreate(p) ==
    /\ pc[p] = "i_create"
    /\ IF packagesDir
       THEN /\ manifests' = With(manifests, file_str[p], <<>>)
            /\ pc' = [pc EXCEPT ![p] = "i_loop"]
            /\ err' = err
       ELSE /\ manifests' = manifests
            /\ pc' = [pc EXCEPT ![p] = "failed"]
            /\ err' = [err EXCEPT ![p] = "ManifestCreateError"]
    /\ UNCHANGED <<files, dirs, packagesDir, configDir, cfgFile, cwdDirs, op, file_str,
                   seen, lines, path, directory, before, roundTrip, deletedSome, retry>>

\* the path of an entry after line 151-154
Stripped(e, name) == StripPrefix(Components(e.path), name)

\* line 150: Path::is_dir on the entry's path, which is relative and so is
\* looked up in the working directory
EntryIsDir(e, cwd) == Components(e.path) \in cwd

\* lines 156-163
Skipped(e, name) == ~StartsWithCategory(Stripped(e, name))

\* lines 165-166
Destination(e, name) == Absolutize(Join(InstallDir, Stripped(e, name)))

\* the place of a manifest that no write has filled
Hole == <<"NUL">>

\* the lines the install of process p has written through its handle of the
\* manifest, which is where its next line goes (the handle of line 144 is
\* not in append mode)
Written(p) ==
    Cardinality({i \in DOMAIN seen[p] :
                    /\ ~Skipped(seen[p][i], file_str[p])
                    /\ ~EntryIsDir(seen[p][i], cwdDirs)})

\* writeln! to the manifest, line 169, through a handle that has written off
\* lines: the line goes after them, over what is there.  The result of the
\* write is ignored, and a manifest that was deleted is not made again.
AppendLine(ms, name, off, dst) ==
    IF name \in DOMAIN ms
    THEN LET m == ms[name]
             n == IF Len(m) > off THEN Len(m) ELSE off + 1
         IN With(ms, name, [i \in 1..n |-> IF i = off + 1 THEN PathToStr(dst)
                                           ELSE IF i <= Len(m) THEN m[i]
                                           ELSE Hole])
    ELSE ms

\* one iteration of the loop of lines 147-177, on the entry e
InstallEntry(p, e) ==
    /\ pc[p] = "i_loop"
    /\ Len(seen[p]) < MaxEntries
    /\ seen' = [seen EXCEPT ![p] = Append(seen[p], e)]
    /\ IF Skipped(e, file_str[p])
       THEN UNCHANGED <<files, dirs, manifests, pc, err>>
       ELSE LET dst == Destination(e, file_str[p]) IN
            IF ~EntryIsDir(e, cwdDirs)
            THEN LET r == Unpack(files, dirs, dst, e.kind, file_str[p]) IN
                 /\ manifests' = AppendLine(manifests, file_str[p], Written(p), dst)
                 /\ files' = r.files
                 /\ dirs' = r.dirs
                 /\ pc' = [pc EXCEPT ![p] = IF r.ok THEN "i_loop" ELSE "failed"]
                 /\ err' = [err EXCEPT ![p] = IF r.ok THEN "none" ELSE "ExtractError"]
            ELSE LET r == CreateDirAll(files, dirs, dst) IN
                 /\ manifests' = manifests
                 /\ files' = r.files
                 /\ dirs' = r.dirs
                 /\ pc' = [pc EXCEPT ![p] = IF r.ok THEN "i_loop" ELSE "failed"]
                 /\ err' = [err EXCEPT ![p] = IF r.ok THEN "none" ELSE "DirectoryCreateError"]
    /\ UNCHANGED <<packagesDir, configDir, cfgFile, cwdDirs, op, file_str, lines,
                   path, directory, before, roundTrip, deletedSome, retry>>

\* the archive has no more entries: install_tar returns
InstallEnd(p) ==
    /\ pc[p] = "i_loop"
    /\ pc' = [pc EXCEPT ![p] = "done"]
    /\ UNCHANGED <<files, dirs, manifests, packagesDir, configDir, cfgFile, cwdDirs, op,
                   file_str, seen, lines, path, directory, err, before,
                   roundTrip, deletedSome, retry>>

(***************************************************************************)
(* remove                                                                  *)
(***************************************************************************)
\* RemoveLookup with a slip: the return of line 210 is missing, and the read
\* of the manifest that is not there panics
RemoveLookup_NoReturn(p, name) ==
    IF name \in DOMAIN manifests
    THEN /\ cfgFile' = TRUE
         /\ lines' = [lines EXCEPT ![p] = manifests[name]]
         /\ pc' = [pc EXCEPT ![p] = "r_line"]
         /\ err' = [err EXCEPT ![p] = "none"]
    ELSE /\ cfgFile' = TRUE
         /\ lines' = [lines EXCEPT ![p] = <<>>]
         /\ pc' = [pc EXCEPT ![p] = "failed"]
         /\ err' = [err EXCEPT ![p] = "Unwrap"]

\* lines 208-216: without a manifest remove reports it and returns; with one
\* it loads the configuration and reads the lines
RemoveLookup(p, name) ==
    IF name \in DOMAIN manifests
    THEN /\ cfgFile' = TRUE
         /\ lines' = [lines EXCEPT ![p] = manifests[name]]
         /\ pc' = [pc EXCEPT ![p] = "r_line"]
         /\ err' = [err EXCEPT ![p] = "none"]
    ELSE /\ cfgFile' = cfgFile
         /\ lines' = [lines EXCEPT ![p] = <<>>]
         /\ pc' = [pc EXCEPT ![p] = "done"]
         /\ err' = [err EXCEPT ![p] = "NotInstalled"]

\* lines 206-216: the manifest is looked up and read
RemoveStart(p, name) ==
    /\ Free(p)
    /\ op' = [op EXCEPT ![p] = "remove"]
    /\ file_str' = [file_str EXCEPT ![p] = name]
    /\ configDir' = TRUE
    /\ seen' = [seen EXCEPT ![p] = <<>>]
    /\ path' = [path EXCEPT ![p] = None]
    /\ directory' = [directory EXCEPT ![p] = None]
    /\ LET rt == /\ pc[p] = "done" /\ op[p] = "install" /\ file_str[p] = name
                 /\ name \in DOMAIN manifests
       IN /\ roundTrip' = [roundTrip EXCEPT ![p] = rt]
          /\ before' = IF rt THEN before ELSE NoSnapshot
    /\ retry' = [retry EXCEPT ![p] =
                    /\ pc[p] = "failed" /\ op[p] = "remove" /\ file_str[p] = name
                    /\ err[p] = "PermissionDenied" /\ deletedSome[p]]
    /\ deletedSome' = [deletedSome EXCEPT ![p] = FALSE]
    /\ RemoveLookup(p, name)
    /\ UNCHANGED <<files, dirs, manifests, packagesDir, cwdDirs>>

\* RemoveLine with a slip: a file that is already missing is passed over
RemoveLine_Tolerant(p, fault) ==
    /\ pc[p] = "r_line"
    /\ lines[p] # <<>>
    /\ LET pth == StrToPath(Head(lines[p])) IN
       /\ path' = [path EXCEPT ![p] = pth]
       /\ IF IsDir(dirs, pth)
          THEN /\ lines' = [lines EXCEPT ![p] = Tail(lines[p])]
               /\ UNCHANGED <<files, directory, pc, err, deletedSome>>
          ELSE IF pth \notin DOMAIN files
          THEN /\ lines' = [lines EXCEPT ![p] = Tail(lines[p])]
               /\ UNCHANGED <<files, directory, pc, err, deletedSome>>
          ELSE IF fault
          THEN /\ pc' = [pc EXCEPT ![p] = "failed"]
               /\ err' = [err EXCEPT ![p] = "PermissionDenied"]
               /\ UNCHANGED <<files, directory, lines, deletedSome>>
          ELSE /\ files' = Without(files, pth)
               /\ lines' = [lines EXCEPT ![p] = Tail(lines[p])]
               /\ directory' = [directory EXCEPT ![p] = Parent(pth)]
               /\ pc' = [pc EXCEPT ![p] = "r_prune"]
               /\ err' = err
               /\ deletedSome' = [deletedSome EXCEPT ![p] = TRUE]
    /\ UNCHANGED <<dirs, manifests, packagesDir, configDir, cfgFile, cwdDirs, op, file_str,
                   seen, before, roundTrip, retry>>

\* lines 217-224 on the next line of the manifest; fault is a deletion the
\* system refuses (the unwrap of line 222 panics)
RemoveLine(p, fault) ==
    /\ pc[p] = "r_line"
    /\ lines[p] # <<>>
    /\ LET pth == StrToPath(Head(lines[p])) IN
       /\ path' = [path EXCEPT ![p] = pth]
       /\ IF IsDir(dirs, pth)
          THEN /\ lines' = [lines EXCEPT ![p] = Tail(lines[p])]
               /\ UNCHANGED <<files, directory, pc, err, deletedSome>>
          ELSE IF pth \notin DOMAIN files \/ fault
          THEN /\ pc' = [pc EXCEPT ![p] = "failed"]
               /\ err' = [err EXCEPT ![p] =
                             IF pth \notin DOMAIN files THEN "NotFound" ELSE "PermissionDenied"]
               /\ UNCHANGED <<files, directory, lines, deletedSome>>
          ELSE /\ files' = Without(files, pth)
               /\ lines' = [lines EXCEPT ![p] = Tail(lines[p])]
               /\ directory' = [directory EXCEPT ![p] = Parent(pth)]
               /\ pc' = [pc EXCEPT ![p] = "r_prune"]
               /\ err' = err
               /\ deletedSome' = [deletedSome EXCEPT ![p] = TRUE]
    /\ UNCHANGED <<dirs, manifests, packagesDir, configDir, cfgFile, cwdDirs, op, file_str,
                   seen, before, roundTrip, retry>>

\* IsCategoryName with a slip: bin is missing from the comparison
IsCategoryName_NoBin(dir_name) == dir_name \in {"etc", "include", "lib", "share"}

\* the names at which the climb of lines 228-235 stops
IsCategoryName(dir_name) == dir_name \in Categories

\* PruneStep with a slip: the loop does not move on to the parent
PruneStep_Stay(p) ==
    /\ pc[p] = "r_prune"
    /\ LET d == Join(InstallDir, directory[p]) IN
       IF d \notin dirs \/ (is_dir_empty(files, dirs, d) /\ FileName(directory[p]) = "none")
       THEN /\ pc' = [pc EXCEPT ![p] = "failed"]
            /\ err' = [err EXCEPT ![p] = "Unwrap"]
            /\ UNCHANGED <<dirs, directory>>
       ELSE IF ~is_dir_empty(files, dirs, d) \/ IsCategoryName(FileName(directory[p]))
       THEN /\ pc' = [pc EXCEPT ![p] = "r_line"]
            /\ UNCHANGED <<dirs, directory, err>>
       ELSE /\ dirs' = dirs \ {directory[p]}
            /\ IF Parent(directory[p]) # None
               THEN /\ directory' = directory
                    /\ pc' = pc
               ELSE /\ directory' = directory
                    /\ pc' = [pc EXCEPT ![p] = "r_line"]
            /\ err' = err
    /\ UNCHANGED <<files, manifests, packagesDir, configDir, cfgFile, cwdDirs, op, file_str,
                   seen, lines, path, before, roundTrip, deletedSome, retry>>

\* one iteration of the loop of lines 226-244
PruneStep(p) ==
    /\ pc[p] = "r_prune"
    /\ LET d == Join(InstallDir, directory[p]) IN
       IF d \notin dirs \/ (is_dir_empty(files, dirs, d) /\ FileName(directory[p]) = "none")
       THEN /\ pc' = [pc EXCEPT ![p] = "failed"]
            /\ err' = [err EXCEPT ![p] = "Unwrap"]
            /\ UNCHANGED <<dirs, directory>>
       ELSE IF ~is_dir_empty(files, dirs, d) \/ IsCategoryName(FileName(directory[p]))
       THEN /\ pc' = [pc EXCEPT ![p] = "r_line"]
            /\ UNCHANGED <<dirs, directory, err>>
       ELSE /\ dirs' = dirs \ {directory[p]}
            /\ IF Parent(directory[p]) # None
               THEN /\ directory' = [directory EXCEPT ![p] = Parent(directory[p])]
                    /\ pc' = pc
               ELSE /\ directory' = directory
                    /\ pc' = [pc EXCEPT ![p] = "r_line"]
            /\ err' = err
    /\ UNCHANGED <<files, manifests, packagesDir, configDir, cfgFile, cwdDirs, op, file_str,
                   seen, lines, path, before, roundTrip, deletedSome, retry>>

\* RemoveManifest with a slip: the manifest is left in place
RemoveManifest_Keep(p) ==
    /\ pc[p] = "r_line"
    /\ lines[p] = <<>>
    /\ manifests' = manifests
    /\ pc' = [pc EXCEPT ![p] = "done"]
    /\ err' = err
    /\ UNCHANGED <<files, dirs, packagesDir, configDir, cfgFile, cwdDirs, op, file_str,
                   seen, lines, path, directory, before, roundTrip, deletedSome, retry>>

\* line 246, after the last line of the manifest
RemoveManifest(p) ==
    /\ pc[p] = "r_line"
    /\ lines[p] = <<>>
    /\ IF file_str[p] \in DOMAIN manifests
       THEN /\ manifests' = Without(manifests, file_str[p])
            /\ pc' = [pc EXCEPT ![p] = "done"]
            /\ err' = err
       ELSE /\ manifests' = manifests
            /\ pc' = [pc EXCEPT ![p] = "failed"]
            /\ err' = [err EXCEPT ![p] = "ManifestDeleteError"]
    /\ UNCHANGED <<files, dirs, packagesDir, configDir, cfgFile, cwdDirs, op, file_str,
                   seen, lines, path, directory, before, roundTrip, deletedSome, retry>>

\* the record of the commands that succeeded: the last install or remove of
\* each package that ran to its end
Track(p) ==
    record' =
        IF pc'[p] = "done" /\ err'[p] = "none" /\ file_str'[p] \in PackageNames
        THEN [record EXCEPT ![file_str'[p]] =
                 IF op'[p] = "install" THEN "installed" ELSE "removed"]
        ELSE record

(***************************************************************************)
(* One command at a time                                                   *)
(***************************************************************************)
\* a step of the one command that runs; the record of the commands is kept
\* only in the runs of SpecOk
Next ==
    \E p \in SeqProcs :
        \/ (\E f \in ArchiveFiles : InstallStart(p, f)) /\ UNCHANGED record
        \/ (InstallPackagesDir(p)) /\ UNCHANGED record
        \/ (InstallCheck(p)) /\ UNCHANGED record
        \/ (InstallCreate(p)) /\ UNCHANGED record
        \/ (\E e \in Entries : InstallEntry(p, e)) /\ UNCHANGED record
        \/ (InstallEnd(p)) /\ UNCHANGED record
        \/ (\E name \in PackageNames : RemoveStart(p, name)) /\ UNCHANGED record
        \/ (\E fault \in BOOLEAN : RemoveLine(p, fault)) /\ UNCHANGED record
        \/ (PruneStep(p)) /\ UNCHANGED record
        \/ (RemoveManifest(p)) /\ UNCHANGED record

Spec == Init /\ [][Next]_vars

(***************************************************************************)
(* The runs in which no command ends in a fatal error: a step that would   *)
(* panic is not taken.  The refusal of an install of an installed package  *)
(* and of an archive that is not named .tar.gz are not fatal errors.       *)
(* These runs keep the record of the commands that succeeded.              *)
(***************************************************************************)
NoPanic ==
    \A p \in Procs :
        pc'[p] = "failed" => err'[p] \in {"AlreadyInstalled", "InvalidArchiveName"}

NextOk ==
    \E p \in SeqProcs :
        \/ (\E f \in ArchiveFiles : InstallStart(p, f)) /\ Track(p) /\ NoPanic
        \/ (InstallPackagesDir(p)) /\ Track(p) /\ NoPanic
        \/ (InstallCheck(p)) /\ Track(p) /\ NoPanic
        \/ (InstallCreate(p)) /\ Track(p) /\ NoPanic
        \/ (\E e \in Entries : InstallEntry(p, e)) /\ Track(p) /\ NoPanic
        \/ (InstallEnd(p)) /\ Track(p) /\ NoPanic
        \/ (\E name \in PackageNames : RemoveStart(p, name)) /\ Track(p) /\ NoPanic
        \/ (\E fault \in BOOLEAN : RemoveLine(p, fault)) /\ Track(p) /\ NoPanic
        \/ (PruneStep(p)) /\ Track(p) /\ NoPanic
        \/ (RemoveManifest(p)) /\ Track(p) /\ NoPanic

SpecOk == Init /\ [][NextOk]_vars

(***************************************************************************)
(* Two installs at once: each of the two processes runs one install, and   *)
(* their steps interleave.                                                 *)
(***************************************************************************)
\* the entries of the archives of the two installs
ConcEntries ==
    { [path |-> <<"bin", "lib">>, kind |-> "dir"],
      [path |-> <<"bin", "lib", "f">>, kind |-> "file"],
      [path |-> <<"bin", ".", "..", "f">>, kind |-> "file"] }

NextConc ==
    \E p \in Procs :
        \/ (\E f \in ArchiveFiles : pc[p] = "idle" /\ InstallStart(p, f)) /\ UNCHANGED record
        \/ (InstallPackagesDir(p)) /\ UNCHANGED record
        \/ (InstallCheck(p)) /\ UNCHANGED record
        \/ (InstallCreate(p)) /\ UNCHANGED record
        \/ (\E e \in ConcEntries : InstallEntry(p, e)) /\ UNCHANGED record
        \/ (InstallEnd(p)) /\ UNCHANGED record

SpecConc == Init /\ [][NextConc]_vars

(***************************************************************************)
(* A command that has begun is run on: a remove that can take a step       *)
(* takes one.                                                              *)
(***************************************************************************)
RemoveRuns ==
    \E p \in SeqProcs :
        /\ \/ \E fault \in BOOLEAN : RemoveLine(p, fault)
           \/ PruneStep(p)
           \/ RemoveManifest(p)
        /\ UNCHANGED record

\* the entries of the archives in these runs: a directory and a file in it, a
\* file whose directory is not made, and a file put directly in the root
LiveEntries ==
    { [path |-> <<"bin", "t">>, kind |-> "dir"],
      [path |-> <<"p", "bin", "t", "f">>, kind |-> "file"],
      [path |-> <<"bin", "lib", "f">>, kind |-> "file"],
      [path |-> <<"bin", ".", "..", "f">>, kind |-> "file"] }

NextLive ==
    \E p \in SeqProcs :
        \/ (\E f \in ArchiveFiles : InstallStart(p, f)) /\ UNCHANGED record
        \/ (InstallPackagesDir(p)) /\ UNCHANGED record
        \/ (InstallCheck(p)) /\ UNCHANGED record
        \/ (InstallCreate(p)) /\ UNCHANGED record
        \/ (\E e \in LiveEntries : InstallEntry(p, e)) /\ UNCHANGED record
        \/ (InstallEnd(p)) /\ UNCHANGED record
        \/ (\E name \in PackageNames : RemoveStart(p, name)) /\ UNCHANGED record
        \/ (\E fault \in BOOLEAN : RemoveLine(p, fault)) /\ UNCHANGED record
        \/ (PruneStep(p)) /\ UNCHANGED record
        \/ (RemoveManifest(p)) /\ UNCHANGED record

SpecLive == Init /\ [][NextLive]_vars /\ WF_vars(RemoveRuns)

(***************************************************************************)
(* Properties                                                              *)
(***************************************************************************)
\* the paths the lines of a manifest name
ManifestPaths(m) == {StrToPath(m[i]) : i \in DOMAIN m}

InstallDone(p) == op[p] = "install" /\ pc[p] = "done"

\* the entry's path without one leading component equal to the package name
\* begins with one of bin, etc, include, lib, share
Eligible(e, name) ==
    LET c == Components(e.path)
        s == IF c # <<>> /\ c[1] = name THEN Tail(c) ELSE c
    IN s # <<>> /\ s[1] \in {"bin", "etc", "include", "lib", "share"}

\* x is install_dir/<category> or lies below it
UnderCategoryRoot(x) ==
    /\ Len(x) >= Len(InstallDir) + 1
    /\ SubSeq(x, 1, Len(InstallDir)) = InstallDir
    /\ x[Len(InstallDir) + 1] \in {"bin", "etc", "include", "lib", "share"}

CategoryRoots == {InstallDir \o <<c>> : c \in {"bin", "etc", "include", "lib", "share"}}

\* C1: after a successful install the manifest has one line for each eligible
\* entry that is not a directory entry, every line names a regular file on
\* disk, and no line is the destination of a directory entry.
C1_ManifestIsTheFilesWritten ==
    \A p \in Procs :
        InstallDone(p) =>
            LET name == file_str[p]
                m == manifests[name]
                fileEntries == {i \in DOMAIN seen[p] :
                                   Eligible(seen[p][i], name) /\ seen[p][i].kind = "file"}
                dirEntries == {i \in DOMAIN seen[p] :
                                  Eligible(seen[p][i], name) /\ seen[p][i].kind = "dir"}
            IN /\ Len(m) = Cardinality(fileEntries)
               /\ \A x \in ManifestPaths(m) : x \in DOMAIN files
               /\ \A i \in dirEntries :
                      Destination(seen[p][i], name) \notin ManifestPaths(m)

\* C2: an iteration of the install loop on an entry that is not under one of
\* the five categories (after the package name is stripped) changes neither
\* the install tree nor the manifests.
C2_SkippedEntryLeavesNoTrace ==
    [][\A p \in Procs :
          (/\ pc[p] = "i_loop"
           /\ Len(seen'[p]) = Len(seen[p]) + 1
           /\ ~Eligible(seen'[p][Len(seen'[p])], file_str[p]))
          => /\ files' = files
             /\ dirs' = dirs
             /\ manifests' = manifests]_vars

\* the scenario of C2: p/bin/t/f (installed) and p/README (skipped) were read
\* and the manifest is exactly the one line of the installed file
C2_Witness ==
    \E p \in Procs :
        /\ InstallDone(p)
        /\ file_str[p] = "p"
        /\ seen[p] = << [path |-> <<"p", "bin", "t", "f">>, kind |-> "file"],
                        [path |-> <<"p", "README">>, kind |-> "file"] >>
        /\ manifests["p"] = << PathToStr(InstallDir \o <<"bin", "t", "f">>) >>
        /\ files[InstallDir \o <<"bin", "t", "f">>] = "p"

\* C3: an install of a package whose manifest exists ends with
\* AlreadyInstalled, and the install tree and the manifests are then as they
\* were when the install started.
C3_AlreadyInstalledIsNoOp ==
    \A p \in Procs :
        (op[p] = "install" /\ file_str[p] \in DOMAIN before.manifests) =>
            /\ pc[p] \in {"i_pkgdir", "i_check", "failed"}
            /\ pc[p] = "failed" => err[p] = "AlreadyInstalled"
            /\ files = before.files
            /\ dirs = before.dirs
            /\ manifests = before.manifests

\* an install was refused while the manifest held lines and the tree files
C3_Witness ==
    \E p \in Procs :
        /\ op[p] = "install"
        /\ pc[p] = "failed"
        /\ err[p] = "AlreadyInstalled"
        /\ Len(manifests[file_str[p]]) >= 1
        /\ \E x \in DOMAIN files : files[x] = file_str[p]

\* C4: after a successful install of a package and then a successful remove
\* of it, the install tree is as it was before the install.
C4_RoundTrip ==
    \A p \in Procs :
        (op[p] = "remove" /\ pc[p] = "done" /\ err[p] = "none" /\ roundTrip[p]) =>
            /\ files = before.files
            /\ dirs = before.dirs

\* C5: no step deletes a category root directory.
C5_CategoryRootsKept ==
    [][\A r \in CategoryRoots : r \in dirs => r \in dirs']_vars

\* the scenario of C5: remove deleted the file and its parent directory, and
\* the climb stopped at the category root, which is now empty
C5_Witness ==
    \E p \in Procs :
        /\ op[p] = "remove"
        /\ pc[p] = "r_line"
        /\ directory[p] \in CategoryRoots
        /\ directory[p] \in dirs
        /\ Children(files, dirs, directory[p]) = {}
        /\ Parent(path[p]) \notin dirs

\* C6: everything an install writes, and every destination it computes for
\* an entry it installs, lies inside install_dir/<category>.
C6_DestinationsInsideCategories ==
    \A p \in Procs :
        op[p] = "install" =>
            /\ \A i \in DOMAIN seen[p] :
                   Eligible(seen[p][i], file_str[p]) =>
                       UnderCategoryRoot(Destination(seen[p][i], file_str[p]))
            /\ \A x \in (DOMAIN files \ DOMAIN before.files) \cup (dirs \ before.dirs) :
                   UnderCategoryRoot(x)

\* C7: a remove of a package that has no manifest reports NotInstalled and
\* returns, and changes neither the install tree nor the packages directory.
C7_NotInstalledIsNoOp ==
    [][\A p \in Procs :
          (/\ Free(p)
           /\ op'[p] = "remove"
           /\ file_str'[p] \notin DOMAIN manifests)
          => /\ pc'[p] = "done"
             /\ err'[p] = "NotInstalled"
             /\ files' = files
             /\ dirs' = dirs
             /\ manifests' = manifests
             /\ packagesDir' = packagesDir]_vars

\* a remove of a package that is not installed has returned, next to an
\* installed package whose files are on disk
C7_Witness ==
    \E p \in Procs :
        /\ op[p] = "remove"
        /\ pc[p] = "done"
        /\ err[p] = "NotInstalled"
        /\ \E n \in DOMAIN manifests :
               /\ n # file_str[p]
               /\ \E x \in ManifestPaths(manifests[n]) : x \in DOMAIN files

\* C8: a step of remove deletes only regular files that the manifest of its
\* package lists, only directories that are empty and are ancestors of the
\* file it has just deleted, and only the manifest of its package.
C8_RemoveDeletesOnlyItsOwn ==
    [][/\ \A x \in DOMAIN files \ DOMAIN files' :
             \E p \in Procs :
                 /\ op[p] = "remove"
                 /\ file_str[p] \in DOMAIN manifests
                 /\ x \in ManifestPaths(manifests[file_str[p]])
       /\ \A d \in dirs \ dirs' :
             /\ Children(files, dirs, d) = {}
             /\ \E p \in Procs :
                    /\ op[p] = "remove"
                    /\ d \in Ancestors(path[p])
                    /\ path[p] \notin DOMAIN files
       /\ \A n \in DOMAIN manifests \ DOMAIN manifests' :
             \E p \in Procs : op[p] = "remove" /\ file_str[p] = n]_vars

\* remove deleted a file and pruned its directory while a file of another
\* installed package stays on disk
C8_Witness ==
    \E p \in Procs :
        /\ op[p] = "remove"
        /\ pc[p] \in {"r_prune", "r_line"}
        /\ path[p] # None
        /\ path[p] \notin DOMAIN files
        /\ Parent(path[p]) \notin dirs
        /\ \E n \in DOMAIN manifests :
               /\ n # file_str[p]
               /\ \E x \in ManifestPaths(manifests[n]) :
                      x \in DOMAIN files /\ x \notin ManifestPaths(manifests[file_str[p]])

\* C9: when an install has ended, with success or with a fatal error, every
\* line it wrote to the manifest names a file the install created.
C9_ManifestLinesWereCreated ==
    \A p \in Procs :
        (/\ op[p] = "install"
         /\ pc[p] \in {"done", "failed"}
         /\ file_str[p] \in DOMAIN manifests
         /\ file_str[p] \notin DOMAIN before.manifests)
        => \A x \in ManifestPaths(manifests[file_str[p]]) :
               x \in DOMAIN files /\ files[x] = file_str[p]

\* C10: after a remove that failed once it had deleted a file, the manifest is
\* still there; when the failure was a refused deletion and the remove is run
\* again, every line it has to process names something on disk, and it fails
\* only if a deletion is refused again.
C10_RetriedRemoveCompletes ==
    \A p \in Procs :
        /\ (op[p] = "remove" /\ pc[p] = "failed" /\ deletedSome[p])
               => file_str[p] \in DOMAIN manifests
        /\ (op[p] = "remove" /\ retry[p] /\ pc[p] = "r_line")
               => \A i \in DOMAIN lines[p] : Exists(files, dirs, StrToPath(lines[p][i]))
        /\ (op[p] = "remove" /\ retry[p] /\ pc[p] = "failed")
               => err[p] = "PermissionDenied"

Idle == \A p \in Procs : Free(p)

\* C11: in the runs in which no command ends in a fatal error, between
\* commands the manifest of a package exists exactly when the last install
\* or remove of the package that ran to its end was an install; so an install
\* is refused only for such a package, and is accepted again after a remove.
C11_ManifestIffInstalled ==
    /\ Idle => \A n \in PackageNames :
                   n \in DOMAIN manifests <=> record[n] = "installed"
    /\ \A p \in Procs :
           (op[p] = "install" /\ err[p] = "AlreadyInstalled")
               => record[file_str[p]] = "installed"

\* the install of a package that was installed and then removed has passed
\* the check of the manifest
C11_Witness ==
    \E p \in Procs :
        /\ op[p] = "install"
        /\ pc[p] = "i_create"
        /\ record[file_str[p]] = "removed"

\* C12: when remove has deleted a file below a category root and the climb
\* from its parent has ended, no empty directory is left strictly between the
\* file and the category root.
C12_PruningReachesCategoryRoot ==
    \A p \in Procs :
        (/\ op[p] = "remove"
         /\ pc[p] \in {"r_line", "done"}
         /\ path[p] # None
         /\ ~Exists(files, dirs, path[p])
         /\ UnderCategoryRoot(path[p]))
        => \A d \in Ancestors(path[p]) :
               (UnderCategoryRoot(d) /\ d \notin CategoryRoots /\ d \in dirs)
                   => Children(files, dirs, d) # {}

\* the errors of the steps of install_tar that come before the loop
EarlyErrors ==
    {"InvalidArchiveName", "ManifestDirCreateError", "AlreadyInstalled", "ManifestCreateError"}

\* C13: install_tar goes through its steps in the order suffix, packages
\* directory, manifest check, manifest creation, entries; a step changes the
\* install tree only in the loop and with the manifest in place, and an
\* install that fails in a step before the loop ends with the tree as it was.
C13_ManifestBeforeTree ==
    [][\A p \in Procs :
          op'[p] = "install" =>
              /\ (pc'[p] = "i_pkgdir" /\ pc[p] # "i_pkgdir")
                     => /\ Free(p)
                        /\ \E f \in ArchiveFiles :
                               /\ EndsWith(Chars[f], TarGz)
                               /\ file_str'[p] = Str(Truncated(Chars[f]))
              /\ (pc'[p] = "i_check" /\ pc[p] # "i_check")
                     => pc[p] = "i_pkgdir" /\ packagesDir'
              /\ (pc'[p] = "i_create" /\ pc[p] # "i_create")
                     => pc[p] = "i_check" /\ file_str[p] \notin DOMAIN manifests
              /\ (pc'[p] = "i_loop" /\ pc[p] # "i_loop")
                     => /\ pc[p] = "i_create"
                        /\ file_str[p] \in DOMAIN manifests'
                        /\ manifests'[file_str[p]] = <<>>
              /\ (files' # files \/ dirs' # dirs)
                     => /\ pc[p] = "i_loop"
                        /\ file_str[p] \in DOMAIN manifests
              /\ (pc'[p] = "failed" /\ pc[p] # "failed" /\ err'[p] \in EarlyErrors)
                     => /\ files' = before'.files
                        /\ dirs' = before'.dirs]_vars

\* an install made its manifest and then, in the loop, changed the tree
C13_Witness ==
    \E p \in Procs :
        /\ op[p] = "install"
        /\ pc[p] = "i_loop"
        /\ seen[p] # <<>>
        /\ file_str[p] \in DOMAIN manifests
        /\ files # before.files

\* the lines of the manifest that the remove of process p has gone through
Processed(p) ==
    LET m == manifests[file_str[p]]
    IN SubSeq(m, 1, Len(m) - Len(lines[p]))

\* C14: a manifest is deleted only by a remove that has no line left; a
\* remove whose next line names a file that is missing or that the system
\* refuses to delete stops at that line; the manifest is then there with all
\* its lines, the files of the lines before are gone, and the step changed
\* nothing, so the files of the lines after are as they were; a step of a
\* remove deletes no file but the one its current line names.
C14_RemoveAbortsAtFailingLine ==
    [][\A p \in Procs :
          op[p] = "remove" =>
              LET name == file_str[p]
                  pth == StrToPath(Head(lines[p]))
              IN /\ (name \in DOMAIN manifests /\ name \notin DOMAIN manifests')
                        => pc[p] = "r_line" /\ lines[p] = <<>> /\ pc'[p] = "done"
                 /\ (/\ pc[p] = "r_line" /\ lines[p] # <<>>
                     /\ pth \notin DOMAIN files /\ pth \notin dirs)
                        => pc'[p] = "failed" /\ err'[p] = "NotFound"
                 /\ (pc[p] = "r_line" /\ pc'[p] = "failed" /\ lines[p] # <<>>)
                        => /\ err'[p] \in {"NotFound", "PermissionDenied"}
                           /\ manifests' = manifests
                           /\ name \in DOMAIN manifests
                           /\ lines'[p] = lines[p]
                           /\ Len(lines[p]) <= Len(manifests[name])
                           /\ Processed(p) \o lines[p] = manifests[name]
                           /\ \A x \in ManifestPaths(Processed(p)) : x \notin DOMAIN files'
                           /\ files' = files
                           /\ dirs' = dirs
                 /\ files' # files
                        => /\ pc[p] = "r_line" /\ lines[p] # <<>>
                           /\ files' = Without(files, pth)
                           /\ lines'[p] = Tail(lines[p])]_vars

\* a remove deleted the file of a line and then stopped at a later line whose
\* file was missing, with the manifest in place
C14_Witness ==
    \E p \in Procs :
        /\ op[p] = "remove"
        /\ pc[p] = "failed"
        /\ err[p] = "NotFound"
        /\ deletedSome[p]
        /\ file_str[p] \in DOMAIN manifests
        /\ Len(lines[p]) < Len(manifests[file_str[p]])

\* C15: the step of an install that fails on an entry undoes nothing: every
\* file and directory of the tree stays as it was, the manifest is there with
\* the lines written so far, and the other manifests are as they were; the
\* package of a failed install therefore has a manifest.
C15_NoRollback ==
    [][\A p \in Procs :
          (op[p] = "install" /\ pc[p] = "i_loop" /\ pc'[p] = "failed") =>
              LET name == file_str[p] IN
              /\ err'[p] \in {"ExtractError", "DirectoryCreateError"}
              /\ \A x \in DOMAIN files : x \in DOMAIN files' /\ files'[x] = files[x]
              /\ dirs \subseteq dirs'
              /\ name \in DOMAIN manifests /\ name \in DOMAIN manifests'
              /\ Len(manifests'[name]) >= Len(manifests[name])
              /\ SubSeq(manifests'[name], 1, Len(manifests[name])) = manifests[name]
              /\ \A n \in DOMAIN manifests : n \in DOMAIN manifests'
              /\ \A n \in DOMAIN manifests \ {name} : manifests'[n] = manifests[n]]_vars

\* an install put a file in the tree and failed on its second entry; the file
\* and the manifest, with its lines, are there
C15_Witness ==
    \E p \in Procs :
        /\ op[p] = "install"
        /\ pc[p] = "failed"
        /\ err[p] = "ExtractError"
        /\ Len(seen[p]) = 2
        /\ file_str[p] \in DOMAIN manifests
        /\ Len(manifests[file_str[p]]) = 2
        /\ \E x \in DOMAIN files :
               files[x] = file_str[p] /\ PathToStr(x) = manifests[file_str[p]][1]

\* C16: the check of an install looks at the manifest alone: an install goes
\* on to create the manifest exactly when there is none at the time of its
\* check, whatever another install of the package is doing, and the creation
\* is never refused, not even when the manifest is there by then; it leaves
\* the manifest empty.
C16_CheckThenCreateIsNotAtomic ==
    [][\A p \in Procs :
          /\ (pc[p] = "i_check" /\ pc'[p] # "i_check")
                 => (pc'[p] = "i_create" <=> file_str[p] \notin DOMAIN manifests)
          /\ (pc[p] = "i_create" /\ pc'[p] # "i_create")
                 => /\ pc'[p] = "i_loop"
                    /\ manifests'[file_str[p]] = <<>>]_vars

\* two installs of the same package both passed the check while the other
\* was between its check and its creation of the manifest or before, and each
\* has gone on to write a file and a line
C16_Witness ==
    /\ \A p \in Procs :
           /\ op[p] = "install"
           /\ pc[p] = "done"
           /\ file_str[p] = "p"
           /\ Written(p) >= 1
    /\ \E x \in DOMAIN files : files[x] = "p"
    /\ manifests["p"] # <<>>

\* C17: after a successful install, every file the install wrote is named by
\* exactly one line of the manifest of the package.
C17_EachFileOnOneLine ==
    \A p \in Procs :
        (InstallDone(p) /\ file_str[p] \in DOMAIN manifests) =>
            LET name == file_str[p]
                m == manifests[name]
                written == {Destination(seen[p][i], name) :
                               i \in {j \in DOMAIN seen[p] : Eligible(seen[p][j], name)}}
            IN \A x \in written \cap DOMAIN files :
                   Cardinality({i \in DOMAIN m : StrToPath(m[i]) = x}) = 1

\* C18: when no command is running, after installs and removes that all
\* succeeded, every line of every manifest names something that is in the
\* install tree.
C18_ManifestLinesExist ==
    Idle => \A n \in DOMAIN manifests :
                \A x \in ManifestPaths(manifests[n]) : Exists(files, dirs, x)

\* C19: a remove that is under way comes to its end, with the manifest
\* deleted or, after an abort, with the manifest in place; an iteration of
\* the pruning loop that goes round again has deleted its directory and
\* moved to the parent of it, one component shorter.
C19_RemoveTerminates ==
    /\ \A p \in SeqProcs :
           (op[p] = "remove" /\ pc[p] \in {"r_line", "r_prune"})
               ~> (/\ op[p] = "remove"
                   /\ \/ pc[p] = "done" /\ file_str[p] \notin DOMAIN manifests
                      \/ pc[p] = "failed" /\ file_str[p] \in DOMAIN manifests)
    /\ [][\A p \in Procs :
              (pc[p] = "r_prune" /\ pc'[p] = "r_prune") =>
                  /\ directory[p] \in dirs /\ directory[p] \notin dirs'
                  /\ Len(directory'[p]) = Len(directory[p]) - 1
                  /\ directory'[p] = SubSeq(directory[p], 1, Len(directory[p]) - 1)]_vars

\* a remove deleted a file, pruned the directory of it, stopped the climb at
\* the directory above, which is still there, and came to its end with the
\* manifest deleted
C19_Witness ==
    \E p \in Procs :
        /\ op[p] = "remove"
        /\ pc[p] = "done"
        /\ err[p] = "none"
        /\ path[p] # None
        /\ Len(path[p]) >= 3
        /\ path[p] \notin DOMAIN files
        /\ SubSeq(path[p], 1, Len(path[p]) - 1) \notin dirs
        /\ SubSeq(path[p], 1, Len(path[p]) - 2) \in dirs
        /\ file_str[p] \notin DOMAIN manifests

====
